---------------------------- MODULE Spec2Model ----------------------------
(***************************************************************************)
(* Frequency-based range queries (src/solution.js).                        *)
(*                                                                         *)
(* frequencyBasedQueries builds a segment tree over the index positions of *)
(* arr (buildSegmentTree) and answers each query [left, right, k] with     *)
(* queryRange; optimizedFrequencyBasedQueries, the CommonJS export, counts *)
(* the queried sub-array directly.  Both validate every query in the same  *)
(* way and throw on the first invalid one.                                 *)
(*                                                                         *)
(* Array indices are 0-based as in the source: At(a, i) reads a[i].  The   *)
(* keys of a JavaScript object are strings; a key is modelled as the tuple *)
(* of its decimal digits, so String(n) and Number(key) are computed.       *)
(***************************************************************************)
EXTENDS Integers, Sequences, FiniteSets

VARIABLES arrGiven, arr, impl, nq, pc, root, i, cur, result, results, err, ret

vars == <<arrGiven, arr, impl, nq, pc, root, i, cur, result, results, err, ret>>

(* Bounds of the model. *)
MaxLen == 3
MaxVal == 1
MaxK == 2
MaxQueries == 2

---------------------------------------------------------------------------
(* JavaScript values and built-ins used by the source. *)

null == [isNull |-> TRUE]

NoResult == [isUndefined |-> TRUE]

At(a, idx) == a[idx + 1]

Min(a, b) == IF a < b THEN a ELSE b

Max(a, b) == IF a > b THEN a ELSE b

RECURSIVE ToString(_)
ToString(n) == IF n < 10 THEN <<n>> ELSE ToString(n \div 10) \o <<n % 10>>

RECURSIVE Number(_)
Number(s) ==
  IF Len(s) = 1 THEN s[1]
  ELSE 10 * Number(SubSeq(s, 1, Len(s) - 1)) + s[Len(s)]

(* m[key] || 0 *)
OrZero(m, key) == IF key \in DOMAIN m THEN m[key] ELSE 0

(* m[key] = v *)
SetKey(m, key, v) == [x \in DOMAIN m \cup {key} |-> IF x = key THEN v ELSE m[x]]

EmptyObject == [x \in {} |-> 0]

(* Object.keys: integer-like keys come in ascending numeric order. *)
RECURSIVE KeysOf(_)
KeysOf(S) ==
  IF S = {} THEN <<>>
  ELSE LET lo == CHOOSE x \in S : \A y \in S : Number(x) <= Number(y)
       IN <<lo>> \o KeysOf(S \ {lo})

ObjectKeys(m) == KeysOf(DOMAIN m)

MapNumber(keys) == [j \in 1..Len(keys) |-> Number(keys[j])]

(* compareFn with the tie broken towards the larger value (b - a). *)
compareFnLargerFirst(m, a, b) ==
  LET freqDiff == m[ToString(b)] - m[ToString(a)]
  IN IF freqDiff # 0 THEN freqDiff ELSE b - a

(* The comparator handed to Array.prototype.sort: frequency descending, *)
(* then element value ascending.                                        *)
compareFn(m, a, b) ==
  LET freqDiff == m[ToString(b)] - m[ToString(a)]
  IN IF freqDiff # 0 THEN freqDiff ELSE a - b

RECURSIVE InsertSorted(_, _, _)
InsertSorted(m, s, x) ==
  IF s = <<>> THEN <<x>>
  ELSE IF compareFn(m, x, Head(s)) < 0 THEN <<x>> \o s
  ELSE <<Head(s)>> \o InsertSorted(m, Tail(s), x)

(* Array.prototype.sort with compareFn over the map m (stable). *)
RECURSIVE SortByFrequency(_, _)
SortByFrequency(m, s) ==
  IF s = <<>> THEN <<>>
  ELSE InsertSorted(m, SortByFrequency(m, SubSeq(s, 1, Len(s) - 1)), s[Len(s)])

---------------------------------------------------------------------------
(* The segment tree. *)

createNode(start, end) ==
  [start |-> start, end |-> end, frequencyMap |-> EmptyObject,
   frequencySorted |-> <<>>, left |-> null, right |-> null]

(* MergeEntries that assigns the child's count instead of adding it. *)
RECURSIVE MergeEntriesOverwrite(_, _, _)
MergeEntriesOverwrite(merged, child, keys) ==
  IF keys = <<>> THEN merged
  ELSE LET element == Head(keys)
       IN MergeEntriesOverwrite(SetKey(merged, element, child[element]), child, Tail(keys))

(* for (const [element, frequency] of Object.entries(child.frequencyMap)) *)
(*   merged[element] = (merged[element] || 0) + frequency                 *)
RECURSIVE MergeEntries(_, _, _)
MergeEntries(merged, child, keys) ==
  IF keys = <<>> THEN merged
  ELSE LET element == Head(keys)
       IN MergeEntries(SetKey(merged, element, OrZero(merged, element) + child[element]),
                       child, Tail(keys))

(* Mid that splits off the first index only. *)
MidAtStart(start, end) == start

Mid(start, end) == (start + end) \div 2

RECURSIVE buildSegmentTree(_, _, _)
buildSegmentTree(a, start, end) ==
  LET node == createNode(start, end)
  IN IF start = end
     THEN [node EXCEPT !.frequencyMap = SetKey(EmptyObject, ToString(At(a, start)), 1),
                       !.frequencySorted = <<At(a, start)>>]
     ELSE LET mid == Mid(start, end)
              l == buildSegmentTree(a, start, mid)
              r == buildSegmentTree(a, mid + 1, end)
              m1 == MergeEntries(EmptyObject, l.frequencyMap, ObjectKeys(l.frequencyMap))
              mergedFrequencyMap == MergeEntries(m1, r.frequencyMap, ObjectKeys(r.frequencyMap))
          IN [node EXCEPT !.left = l, !.right = r,
                          !.frequencyMap = mergedFrequencyMap,
                          !.frequencySorted =
                             SortByFrequency(mergedFrequencyMap,
                                             MapNumber(ObjectKeys(mergedFrequencyMap)))]

Sentinel == [element |-> -1, frequency |-> 0]

(* for (const [element, frequency] of Object.entries(child.frequencyMap)) *)
(*   if (element >= left && element <= right)                             *)
(*     range[element] = (range[element] || 0) + frequency                 *)
RECURSIVE AddFiltered(_, _, _, _, _)
AddFiltered(range, child, keys, left, right) ==
  IF keys = <<>> THEN range
  ELSE LET element == Head(keys)
           next == IF Number(element) >= left /\ Number(element) <= right
                   THEN SetKey(range, element, OrZero(range, element) + child[element])
                   ELSE range
       IN AddFiltered(next, child, Tail(keys), left, right)

(* AnswerFromNode with the bound test off by one (k >= length). *)
AnswerFromNodeStrict(node, k) ==
  IF k >= Len(node.frequencySorted) THEN Sentinel
  ELSE LET element == node.frequencySorted[k]
       IN [element |-> element, frequency |-> node.frequencyMap[ToString(element)]]

(* The node's range lies within the queried range: the answer is read off *)
(* the node's own ranking.                                                *)
AnswerFromNode(node, k) ==
  IF k > Len(node.frequencySorted) THEN Sentinel
  ELSE LET element == node.frequencySorted[k]
       IN [element |-> element, frequency |-> node.frequencyMap[ToString(element)]]

RECURSIVE queryRange(_, _, _, _)
queryRange(node, left, right, k) ==
  IF node.start >= left /\ node.end <= right
  THEN AnswerFromNode(node, k)
  ELSE IF node.end < left \/ node.start > right THEN Sentinel
  ELSE
    LET mid == Mid(node.start, node.end)
        m0 == EmptyObject
        m1 == IF left <= mid
              THEN LET leftResult == queryRange(node.left, left, Min(right, mid), 1)
                   IN IF leftResult.element # -1
                      THEN AddFiltered(m0, node.left.frequencyMap,
                                       ObjectKeys(node.left.frequencyMap), left, right)
                      ELSE m0
              ELSE m0
        rangeFrequencyMap ==
              IF right > mid
              THEN LET rightResult == queryRange(node.right, Max(left, mid + 1), right, 1)
                   IN IF rightResult.element # -1
                      THEN AddFiltered(m1, node.right.frequencyMap,
                                       ObjectKeys(node.right.frequencyMap), left, right)
                      ELSE m1
              ELSE m1
        frequencySorted ==
              SortByFrequency(rangeFrequencyMap, MapNumber(ObjectKeys(rangeFrequencyMap)))
    IN IF k > Len(frequencySorted) THEN Sentinel
       ELSE LET element == frequencySorted[k]
            IN [element |-> element, frequency |-> rangeFrequencyMap[ToString(element)]]

---------------------------------------------------------------------------
(* Inputs. *)

Values == 0..MaxVal

Arrays == UNION {[1..n -> Values] : n \in 0..MaxLen}

Queries == {<<l, r, k>> : l \in -1..(MaxLen - 1), r \in 0..MaxLen, k \in 0..MaxK}

(* Thrown errors, as the message's fixed text and its interpolated values. *)
NoError == <<>>

EmptyArrayError == <<"Input array cannot be empty">>

InvalidRangeError(left, right) == <<"Invalid range", left, right>>

InvalidKError(k) == <<"Invalid k value", k>>

KExceedsError(k, distinctElements, left, right) ==
  <<"k exceeds number of distinct elements", k, distinctElements, left, right>>

NotReturned == [returned |-> FALSE, value |-> <<>>]

Returned(v) == [returned |-> TRUE, value |-> v]

(* !arr || arr.length === 0 *)
IsEmptyInput == ~arrGiven \/ Len(arr) = 0

(* InvalidRange without the left > right test. *)
InvalidRangeNoOrder(left, right) == left < 0 \/ right >= Len(arr)

(* left < 0 || right >= arr.length || left > right *)
InvalidRange(left, right) == left < 0 \/ right >= Len(arr) \/ left > right

(* k <= 0 *)
InvalidK(k) == k <= 0

(* new Set(arr.slice(left, right + 1)).size *)
DistinctInSlice(a, left, right) == Cardinality({At(a, j) : j \in left..right})

(* CountRange that stops one index early (i < right). *)
RECURSIVE CountRangeExclusive(_, _, _, _)
CountRangeExclusive(frequencyMap, a, j, right) ==
  IF j >= right THEN frequencyMap
  ELSE LET key == ToString(At(a, j))
       IN CountRangeExclusive(SetKey(frequencyMap, key, OrZero(frequencyMap, key) + 1),
                              a, j + 1, right)

(* for (let i = left; i <= right; i++) map[arr[i]] = (map[arr[i]] || 0) + 1 *)
RECURSIVE CountRange(_, _, _, _)
CountRange(frequencyMap, a, j, right) ==
  IF j > right THEN frequencyMap
  ELSE LET key == ToString(At(a, j))
       IN CountRange(SetKey(frequencyMap, key, OrZero(frequencyMap, key) + 1), a, j + 1, right)

---------------------------------------------------------------------------
(* frequencyBasedQueries(arr, queries): the tree-based function. *)

(* Throw that records -1 for the query and lets the loop go on. *)
ThrowSkips(e) ==
  /\ pc' = pc
  /\ err' = err
  /\ i' = i + 1
  /\ results' = Append(results, -1)

(* throw new Error(...): the call ends here; results is not handed back. *)
Throw(e) ==
  /\ pc' = "thrown"
  /\ err' = e
  /\ UNCHANGED <<i, results>>

(* The empty-input check, the construction of the tree, results = []. *)
Enter ==
  /\ pc = "call"
  /\ impl = "frequencyBasedQueries"
  /\ IF IsEmptyInput
     THEN /\ Throw(EmptyArrayError)
          /\ UNCHANGED root
     ELSE /\ root' = buildSegmentTree(arr, 0, Len(arr) - 1)
          /\ results' = <<>>
          /\ pc' = "loop"
          /\ UNCHANGED <<err, i>>
  /\ UNCHANGED <<arrGiven, arr, impl, nq, cur, result, ret>>

(* Iterate that stores the queried ranking in the root node. *)
IterateCaching(q) ==
  LET left == q[1]
      right == q[2]
      k == q[3]
  IN /\ pc = "loop"
     /\ impl = "frequencyBasedQueries"
     /\ i < nq
     /\ cur' = q
     /\ IF InvalidRange(left, right)
        THEN /\ Throw(InvalidRangeError(left, right))
             /\ UNCHANGED <<result, root>>
        ELSE IF InvalidK(k)
        THEN /\ Throw(InvalidKError(k))
             /\ UNCHANGED <<result, root>>
        ELSE LET distinctElements == DistinctInSlice(arr, left, right)
             IN IF k > distinctElements
                THEN /\ Throw(KExceedsError(k, distinctElements, left, right))
                     /\ UNCHANGED <<result, root>>
                ELSE /\ result' = queryRange(root, left, right, k)
                     /\ root' = [root EXCEPT !.frequencySorted = <<result'.element>>]
                     /\ results' = Append(results, result'.element)
                     /\ i' = i + 1
                     /\ UNCHANGED <<pc, err>>
     /\ UNCHANGED <<arrGiven, arr, impl, nq, ret>>

(* One iteration of the loop over queries, for the query q = [left, right, k]. *)
Iterate(q) ==
  LET left == q[1]
      right == q[2]
      k == q[3]
  IN /\ pc = "loop"
     /\ impl = "frequencyBasedQueries"
     /\ i < nq
     /\ cur' = q
     /\ IF InvalidRange(left, right)
        THEN /\ Throw(InvalidRangeError(left, right))
             /\ UNCHANGED result
        ELSE IF InvalidK(k)
        THEN /\ Throw(InvalidKError(k))
             /\ UNCHANGED result
        ELSE LET distinctElements == DistinctInSlice(arr, left, right)
             IN IF k > distinctElements
                THEN /\ Throw(KExceedsError(k, distinctElements, left, right))
                     /\ UNCHANGED result
                ELSE /\ result' = queryRange(root, left, right, k)
                     /\ results' = Append(results, result'.element)
                     /\ i' = i + 1
                     /\ UNCHANGED <<pc, err>>
     /\ UNCHANGED <<arrGiven, arr, impl, nq, root, ret>>

(* return results *)
Return ==
  /\ pc = "loop"
  /\ impl = "frequencyBasedQueries"
  /\ i = nq
  /\ ret' = Returned(results)
  /\ pc' = "returned"
  /\ UNCHANGED <<arrGiven, arr, impl, nq, root, i, cur, result, results, err>>

---------------------------------------------------------------------------
(* optimizedFrequencyBasedQueries(arr, queries): the exported function. *)

OptEnter ==
  /\ pc = "call"
  /\ impl = "optimizedFrequencyBasedQueries"
  /\ IF IsEmptyInput
     THEN Throw(EmptyArrayError)
     ELSE /\ results' = <<>>
          /\ pc' = "loop"
          /\ UNCHANGED <<err, i>>
  /\ UNCHANGED <<arrGiven, arr, impl, nq, root, cur, result, ret>>

OptIterate(q) ==
  LET left == q[1]
      right == q[2]
      k == q[3]
  IN /\ pc = "loop"
     /\ impl = "optimizedFrequencyBasedQueries"
     /\ i < nq
     /\ cur' = q
     /\ IF InvalidRange(left, right)
        THEN /\ Throw(InvalidRangeError(left, right))
        ELSE IF InvalidK(k)
        THEN /\ Throw(InvalidKError(k))
        ELSE LET frequencyMap == CountRange(EmptyObject, arr, left, right)
                 distinctElements == Len(ObjectKeys(frequencyMap))
             IN IF k > distinctElements
                THEN /\ Throw(KExceedsError(k, distinctElements, left, right))
                ELSE LET sortedElements ==
                           SortByFrequency(frequencyMap, MapNumber(ObjectKeys(frequencyMap)))
                     IN /\ results' = Append(results, sortedElements[k])
                        /\ i' = i + 1
                        /\ UNCHANGED <<pc, err>>
     /\ UNCHANGED <<arrGiven, arr, impl, nq, root, result, ret>>

OptReturn ==
  /\ pc = "loop"
  /\ impl = "optimizedFrequencyBasedQueries"
  /\ i = nq
  /\ ret' = Returned(results)
  /\ pc' = "returned"
  /\ UNCHANGED <<arrGiven, arr, impl, nq, root, i, cur, result, results, err>>

---------------------------------------------------------------------------
(* A call of either function on any array and any list of nq queries, the  *)
(* queries being read from the list one per iteration.                     *)

Init ==
  /\ arrGiven \in BOOLEAN
  /\ arr \in (IF arrGiven THEN Arrays ELSE {<<>>})
  /\ impl \in {"frequencyBasedQueries", "optimizedFrequencyBasedQueries"}
  /\ nq \in 0..MaxQueries
  /\ pc = "call"
  /\ root = null
  /\ i = 0
  /\ cur = <<>>
  /\ result = NoResult
  /\ results = <<>>
  /\ err = NoError
  /\ ret = NotReturned

Next ==
  \/ Enter
  \/ \E q \in Queries : Iterate(q)
  \/ Return
  \/ OptEnter
  \/ \E q \in Queries : OptIterate(q)
  \/ OptReturn

Spec == Init /\ [][Next]_vars

---------------------------------------------------------------------------
(* queryRange as a function of the built tree: any range inside the array  *)
(* and any positive rank, also ranks beyond the range's distinct count.    *)

CoreQuery(left, right, k) ==
  /\ pc = "built"
  /\ i < MaxQueries
  /\ cur' = <<left, right, k>>
  /\ result' = queryRange(root, left, right, k)
  /\ i' = i + 1
  /\ UNCHANGED <<arrGiven, arr, impl, nq, pc, root, results, err, ret>>

InitQuery ==
  /\ arrGiven = TRUE
  /\ arr \in Arrays \ {<<>>}
  /\ impl = "queryRange"
  /\ nq = 0
  /\ pc = "built"
  /\ root = buildSegmentTree(arr, 0, Len(arr) - 1)
  /\ i = 0
  /\ cur = <<>>
  /\ result = NoResult
  /\ results = <<>>
  /\ err = NoError
  /\ ret = NotReturned

NextQuery ==
  \E left \in 0..(MaxLen - 1), right \in 0..(MaxLen - 1), k \in 1..(MaxK + 1) :
     /\ left <= right
     /\ right < Len(arr)
     /\ CoreQuery(left, right, k)

SpecQuery == InitQuery /\ [][NextQuery]_vars

---------------------------------------------------------------------------
(* What the claims speak of, stated on the array itself.                *)

Tree == impl = "frequencyBasedQueries"

Opt == impl = "optimizedFrequencyBasedQueries"

DistinctValues(a, left, right) == {At(a, j) : j \in left..right}

Occurrences(a, left, right, v) == Cardinality({j \in left..right : At(a, j) = v})

(* v is ranked before u: more occurrences, or as many and a smaller value. *)
RanksBefore(a, left, right, v, u) ==
  \/ Occurrences(a, left, right, v) > Occurrences(a, left, right, u)
  \/ /\ Occurrences(a, left, right, v) = Occurrences(a, left, right, u)
     /\ v < u

RankOf(a, left, right, v) ==
  1 + Cardinality({u \in DistinctValues(a, left, right) : RanksBefore(a, left, right, u, v)})

KthMostFrequent(a, left, right, k) ==
  CHOOSE v \in DistinctValues(a, left, right) : RankOf(a, left, right, v) = k

InRange(q) == 0 <= q[1] /\ q[1] <= q[2] /\ q[2] < Len(arr)

ValidQuery(q) ==
  /\ InRange(q)
  /\ 1 <= q[3]
  /\ q[3] <= Cardinality(DistinctValues(arr, q[1], q[2]))

(* The node covers the whole queried range, or only part of it. *)
Aligned(q) == q[1] = 0 /\ q[2] = Len(arr) - 1

(* cur is a query the loop has answered: its answer is the last result. *)
Answered == pc \in {"loop", "returned"} /\ cur # <<>>

LastResult == results[Len(results)]

RECURSIVE NodesOf(_)
NodesOf(node) ==
  IF node = null THEN {} ELSE {node} \cup NodesOf(node.left) \cup NodesOf(node.right)

IsLeaf(node) == node.left = null /\ node.right = null

---------------------------------------------------------------------------
(* C1: every valid query of the tree-based function is answered with the   *)
(* element that is k-th by occurrence count in arr[left..right], ties to   *)
(* the smaller value, whether or not the range is that of a tree node.     *)
C1_TreeAnswersKth ==
  (Tree /\ Answered) =>
     LastResult = KthMostFrequent(arr, cur[1], cur[2], cur[3])

(* C2: every valid query of the tree-based function is answered with an    *)
(* element that occurs in arr[left..right], never with the -1 sentinel.    *)
C2_TreeAnswerInRange ==
  (Tree /\ Answered) =>
     /\ LastResult # -1
     /\ \E j \in cur[1]..cur[2] : At(arr, j) = LastResult

C4_ValidationOrder ==
  /\ (pc # "call" /\ (~arrGiven \/ arr = <<>>)) =>
        pc = "thrown" /\ err = <<"Input array cannot be empty">> /\ cur = <<>>
  /\ (pc # "call" /\ arrGiven /\ arr # <<>> /\ cur = <<>>) => pc # "thrown" /\ err = <<>>
  /\ (pc # "call" /\ arrGiven /\ arr # <<>> /\ cur # <<>>) =>
        LET left == cur[1]
            right == cur[2]
            k == cur[3]
            distinct == Cardinality(DistinctValues(arr, left, right))
        IN IF left < 0 \/ right >= Len(arr) \/ left > right
           THEN pc = "thrown" /\ err = <<"Invalid range", left, right>>
           ELSE IF k <= 0
           THEN pc = "thrown" /\ err = <<"Invalid k value", k>>
           ELSE IF k > distinct
           THEN pc = "thrown"
                /\ err = <<"k exceeds number of distinct elements", k, distinct, left, right>>
           ELSE pc # "thrown" /\ err = <<>>

(* k is within the array's distinct count but above the queried range's. *)
C4_Witness ==
  /\ pc = "thrown"
  /\ Len(err) = 5
  /\ cur[3] <= Cardinality(DistinctValues(arr, 0, Len(arr) - 1))
  /\ cur[3] > Cardinality(DistinctValues(arr, cur[1], cur[2]))

(* C5: the first invalid query ends the call with its error: no list is    *)
(* returned, not even the answers already computed, and nothing runs after *)
(* the throw; a list is returned only when every query was valid, and it   *)
(* has one entry per query.                                                *)
C5_FailTheBatch ==
  /\ [](pc = "thrown" =>
          /\ ret = NotReturned
          /\ err # NoError
          /\ cur # <<>> => (~ValidQuery(cur) /\ Len(results) = i /\ i < nq))
  /\ [](ret.returned =>
          /\ pc = "returned"
          /\ err = NoError
          /\ ret.value = results
          /\ Len(ret.value) = nq)
  /\ [][/\ pc \notin {"thrown", "returned"}
        /\ (pc = "call" /\ IsEmptyInput) => pc' = "thrown"
        /\ (pc = "loop" /\ pc' = "loop") =>
              /\ ValidQuery(cur')
              /\ i' = i + 1
              /\ Len(results') = Len(results) + 1
              /\ SubSeq(results', 1, Len(results)) = results
        /\ (pc = "loop" /\ pc' = "thrown") =>
              /\ ~ValidQuery(cur')
              /\ i' = i
        /\ (pc = "loop" /\ pc' = "returned") => i = nq]_vars

(* A query fails after an earlier one was answered; the answer is dropped. *)
C5_Witness ==
  /\ pc = "thrown"
  /\ Len(results) >= 1
  /\ ret = NotReturned

(* C6: answering queries writes to no node: the tree stays the one that    *)
(* buildSegmentTree produced, and the answer to a query is the one a       *)
(* freshly built tree gives, at any position in the batch.                 *)
C6_QueriesLeaveTreeUnchanged ==
  (Tree /\ pc # "call" /\ ~IsEmptyInput) =>
     LET fresh == buildSegmentTree(arr, 0, Len(arr) - 1)
     IN /\ root = fresh
        /\ Answered =>
             /\ result = queryRange(fresh, cur[1], cur[2], cur[3])
             /\ LastResult = result.element

(* The second of two answered queries, on a range that is not a node's. *)
C6_Witness ==
  /\ Tree
  /\ Answered
  /\ i = 2
  /\ ~Aligned(cur)
  /\ root = buildSegmentTree(arr, 0, Len(arr) - 1)

(* The node with its children cut off. *)
WithoutChildren(node) == [node EXCEPT !.left = null, !.right = null]

(* C7: a query of the whole array is answered from the root's ranking      *)
(* alone: frequencySorted[k-1] with its count in the whole array when      *)
(* k <= the number of distinct values of arr, the sentinel otherwise.      *)
C7_FullRangeFromRoot ==
  (pc = "built" /\ cur # <<>> /\ cur[1] = 0 /\ cur[2] = Len(arr) - 1) =>
     LET k == cur[3]
         last == Len(arr) - 1
     IN /\ IF k <= Cardinality(DistinctValues(arr, 0, last))
           THEN /\ result.element = root.frequencySorted[k]
                /\ result.frequency = Occurrences(arr, 0, last, result.element)
           ELSE result = [element |-> -1, frequency |-> 0]
        /\ result = queryRange(WithoutChildren(root), 0, last, k)

C7_Witness ==
  /\ pc = "built"
  /\ cur # <<>>
  /\ cur[1] = 0
  /\ cur[2] = Len(arr) - 1
  /\ Len(arr) >= 2
  /\ cur[3] = Cardinality(DistinctValues(arr, 0, Len(arr) - 1)) + 1
  /\ result = Sentinel

RECURSIVE SumOver(_, _)
SumOver(m, keys) ==
  IF keys = {} THEN 0
  ELSE LET key == CHOOSE x \in keys : TRUE
       IN m[key] + SumOver(m, keys \ {key})

Built == Tree /\ root # null

(* C8: every node's frequencyMap has exactly the distinct values of        *)
(* arr[start..end] as keys, each mapped to its number of occurrences       *)
(* there; the counts sum to end - start + 1; an internal node's map is the *)
(* key-wise sum of its children's maps.                                    *)
C8_FrequencyMapCounts ==
  Built =>
    \A node \in NodesOf(root) :
      LET m == node.frequencyMap
          present == DistinctValues(arr, node.start, node.end)
      IN /\ DOMAIN m = {ToString(v) : v \in present}
         /\ \A v \in present : m[ToString(v)] = Occurrences(arr, node.start, node.end, v)
         /\ SumOver(m, DOMAIN m) = node.end - node.start + 1
         /\ ~IsLeaf(node) =>
              /\ DOMAIN m = DOMAIN node.left.frequencyMap \cup DOMAIN node.right.frequencyMap
              /\ \A key \in DOMAIN m :
                    m[key] = OrZero(node.left.frequencyMap, key)
                             + OrZero(node.right.frequencyMap, key)

(* Some value occurs under both children of a node. *)
C8_Witness ==
  /\ Built
  /\ \E node \in NodesOf(root) :
        /\ ~IsLeaf(node)
        /\ DOMAIN node.left.frequencyMap \cap DOMAIN node.right.frequencyMap # {}
        /\ Cardinality(DOMAIN node.frequencyMap) >= 2

(* C9: every node's frequencySorted lists each key of its frequencyMap     *)
(* once and nothing else, and of two adjacent entries the first has the    *)
(* larger count, or the same count and the smaller value.                  *)
C9_RankingOrder ==
  Built =>
    \A node \in NodesOf(root) :
      LET m == node.frequencyMap
          s == node.frequencySorted
      IN /\ Len(s) = Cardinality(DOMAIN m)
         /\ {ToString(s[j]) : j \in 1..Len(s)} = DOMAIN m
         /\ \A j \in 1..(Len(s) - 1) :
               \/ m[ToString(s[j])] > m[ToString(s[j + 1])]
               \/ /\ m[ToString(s[j])] = m[ToString(s[j + 1])]
                  /\ s[j] < s[j + 1]

(* A ranking with a strict step in count and a tie broken by value. *)
C9_Witness ==
  /\ Built
  /\ \E node \in NodesOf(root) :
        LET m == node.frequencyMap
            s == node.frequencySorted
        IN /\ Len(s) >= 2
           /\ m[ToString(s[1])] = m[ToString(s[2])]
           /\ \E other \in NodesOf(root) :
                 /\ Len(other.frequencySorted) >= 2
                 /\ other.frequencyMap[ToString(other.frequencySorted[1])]
                       > other.frequencyMap[ToString(other.frequencySorted[2])]
                 /\ other.frequencySorted[1] > other.frequencySorted[2]

(* C10: the root covers [0, n-1]; every node has start <= end; a node with *)
(* start = end is a leaf with the table {arr[start]: 1}; every other node  *)
(* has two children covering [start, mid] and [mid+1, end], mid being      *)
(* floor((start+end)/2), both non-empty.                                   *)
C10_TreeShape ==
  Built =>
    /\ root.start = 0
    /\ root.end = Len(arr) - 1
    /\ \A node \in NodesOf(root) :
         /\ node.start <= node.end
         /\ node.start = node.end =>
              /\ IsLeaf(node)
              /\ DOMAIN node.frequencyMap = {ToString(At(arr, node.start))}
              /\ node.frequencyMap[ToString(At(arr, node.start))] = 1
         /\ node.start < node.end =>
              LET mid == (node.start + node.end) \div 2
              IN /\ node.left # null
                 /\ node.right # null
                 /\ node.left.start = node.start
                 /\ node.left.end = mid
                 /\ node.right.start = mid + 1
                 /\ node.right.end = node.end
                 /\ node.left.start <= node.left.end
                 /\ node.right.start <= node.right.end

(* An odd-sized range: the left child is the larger one. *)
C10_Witness ==
  /\ Built
  /\ Len(arr) = 3
  /\ Cardinality(NodesOf(root)) = 5
  /\ root.left.end = 1
  /\ IsLeaf(root.right)

=============================================================================
